---- MODULE Spec2Model ----
(***************************************************************************)
(* Model of src/sample_vector_from_raster.py: SampleVectorFromRaster.sample *)
(* and SampleVectorFromRaster._d2r_sampling.                                *)
(*                                                                         *)
(* Strings are sequences of one-character strings, so that split, int,     *)
(* strptime and isoformat are computed character by character.             *)
(* A datetime is a record [year, month, day, hour, minute, second].        *)
(* A DataFrame is a sequence of row records; the GeoDataFrame rows carry   *)
(* their index label, because dropna keeps the labels of the rows it keeps.*)
(***************************************************************************)
EXTENDS Integers, Sequences, FiniteSets, TLC

\* ------------------------------------------------------------------ bounds
\* Largest number of entries in the raster directory.
MaxFiles == 2

\* Largest number of records in the raw vector file.
MaxPoints == 2

\* ------------------------------------------------------- program constants
\* "nan_value": -9999 of config.json, also the default of _d2r_sampling.
NanValue == -9999

\* EPSG code used by the project (default crs of _d2r_sampling).
ProjectCrs == 25832

\* Some other EPSG code, for rasters delivered in another reference system.
OtherCrs == ProjectCrs + 1

\* A missing LeuchtenNr (pandas NaN), as isnull() sees it.
NaN == -1

\* A record without geometry (None in the geometry column).
None == << >>

\* ---------------------------------------------------------------- strings
DigitChars == {"0", "1", "2", "3", "4", "5", "6", "7", "8", "9"}

DigitVal ==
  ("0" :> 0) @@ ("1" :> 1) @@ ("2" :> 2) @@ ("3" :> 3) @@ ("4" :> 4) @@
  ("5" :> 5) @@ ("6" :> 6) @@ ("7" :> 7) @@ ("8" :> 8) @@ ("9" :> 9)

DigitChar == <<"0", "1", "2", "3", "4", "5", "6", "7", "8", "9">>

RECURSIVE SplitFrom(_, _, _, _)
\* The pieces of s from position start on; pos is the scanning position.
SplitFrom(s, sep, start, pos) ==
  IF pos > Len(s) THEN <<SubSeq(s, start, Len(s))>>
  ELSE IF s[pos] = sep
    THEN <<SubSeq(s, start, pos - 1)>> \o SplitFrom(s, sep, pos + 1, pos + 1)
    ELSE SplitFrom(s, sep, start, pos + 1)

\* str.split(sep) for a one-character separator: "a__b" -> ["a", "", "b"].
Split(s, sep) == SplitFrom(s, sep, 1, 1)

RECURSIVE LastDotFrom(_, _)
LastDotFrom(name, i) ==
  IF i = 0 THEN 0
  ELSE IF name[i] = "." THEN i ELSE LastDotFrom(name, i - 1)

\* Position of the last "." of a file name (str.rfind), 0 when there is none.
LastDot(name) == LastDotFrom(name, Len(name))

\* pathlib: PurePath.suffix. A leading dot or a trailing dot starts no suffix.
PathSuffix(name) ==
  LET i == LastDot(name)
  IN  IF 1 < i /\ i < Len(name) THEN SubSeq(name, i, Len(name)) ELSE << >>

\* pathlib: PurePath.stem.
PathStem(name) ==
  LET i == LastDot(name)
  IN  IF 1 < i /\ i < Len(name) THEN SubSeq(name, 1, i - 1) ELSE name

RECURSIVE DigitsToNat(_)
DigitsToNat(s) ==
  IF s = << >> THEN 0
  ELSE 10 * DigitsToNat(SubSeq(s, 1, Len(s) - 1)) + DigitVal[s[Len(s)]]

\* int(token) succeeds on a non-empty string of decimal digits; any other
\* token over the alphabet of the modelled file names raises ValueError.
IntOk(tok) == tok # << >> /\ \A i \in 1..Len(tok) : tok[i] \in DigitChars

PyInt(tok) == DigitsToNat(tok)

RECURSIVE ZeroPad(_, _)
\* "%0<width>d" of a natural number.
ZeroPad(n, width) ==
  IF width = 0 THEN << >>
  ELSE ZeroPad(n \div 10, width - 1) \o <<DigitChar[(n % 10) + 1]>>

\* ------------------------------------------------------------------ dates
IsLeap(y) == y % 4 = 0 /\ (y % 100 # 0 \/ y % 400 = 0)

DaysInMonth(y, m) ==
  IF m = 2 THEN (IF IsLeap(y) THEN 29 ELSE 28)
  ELSE IF m \in {4, 6, 9, 11} THEN 30 ELSE 31

\* Days of a common year that precede the first day of each month.
DaysBeforeMonthTable == <<0, 31, 59, 90, 120, 151, 181, 212, 243, 273, 304, 334>>

DaysBeforeMonth(y, m) ==
  DaysBeforeMonthTable[m] + (IF m > 2 /\ IsLeap(y) THEN 1 ELSE 0)

DaysBeforeYear(y) ==
  (y - 1) * 365 + ((y - 1) \div 4) - ((y - 1) \div 100) + ((y - 1) \div 400)

MinYear == 1

MaxYear == 9999

\* date.toordinal(): 1 is January 1 of year 1.
Ordinal(dt) == DaysBeforeYear(dt.year) + DaysBeforeMonth(dt.year, dt.month) + dt.day

RECURSIVE YearOfOrdinal(_, _)
YearOfOrdinal(n, y) ==
  IF n <= DaysBeforeYear(y + 1) THEN y ELSE YearOfOrdinal(n, y + 1)

RECURSIVE MonthOfYearDay(_, _, _)
\* d is the 1-based day of year y; the month that contains it.
MonthOfYearDay(y, d, m) ==
  IF d <= DaysBeforeMonth(y, m) + DaysInMonth(y, m) THEN m
  ELSE MonthOfYearDay(y, d, m + 1)

\* date.fromordinal(n), with the time of day given.
FromOrdinal(n, hour, minute, second) ==
  LET y == YearOfOrdinal(n, ((n - 1) \div 366) + 1)
      d == n - DaysBeforeYear(y)
      m == MonthOfYearDay(y, d, 1)
  IN  [year |-> y, month |-> m, day |-> d - DaysBeforeMonth(y, m),
       hour |-> hour, minute |-> minute, second |-> second]

\* datetime(year, month, day): midnight.
Datetime(y, m, d) ==
  [year |-> y, month |-> m, day |-> d, hour |-> 0, minute |-> 0, second |-> 0]

SecondOfDay(dt) == dt.hour * 3600 + dt.minute * 60 + dt.second

\* datetime.__le__
DtLeq(a, b) ==
  LET oa == Ordinal(a)
      ob == Ordinal(b)
  IN  oa < ob \/ (oa = ob /\ SecondOfDay(a) <= SecondOfDay(b))

\* datetime + Timedelta(days=n)
AddDays(dt, n) == FromOrdinal(Ordinal(dt) + n, dt.hour, dt.minute, dt.second)

\* The sum is representable (no OverflowError).
AddDaysOk(dt, n) == Ordinal(dt) + n <= DaysBeforeYear(MaxYear + 1)

\* datetime.isoformat() with no microseconds, followed by "Z".
IsoFormatZ(dt) ==
  ZeroPad(dt.year, 4) \o <<"-">> \o ZeroPad(dt.month, 2) \o <<"-">> \o
  ZeroPad(dt.day, 2) \o <<"T">> \o ZeroPad(dt.hour, 2) \o <<":">> \o
  ZeroPad(dt.minute, 2) \o <<":">> \o ZeroPad(dt.second, 2) \o <<"Z">>

\* --------------------------------------------------------------- strptime
\* datetime.strptime compiles the format into a regular expression, takes the
\* first match the backtracking search finds (alternatives in the order
\* written), and then rejects the string if the match does not end at the
\* end of the string. A directive is its sequence of alternatives, an
\* alternative a sequence of character classes.
D01 == {"0", "1"}

D02 == {"0", "1", "2"}

D03 == {"0", "1", "2", "3"}

D05 == {"0", "1", "2", "3", "4", "5"}

D06 == {"0", "1", "2", "3", "4", "5", "6"}

D09 == DigitChars

D12 == {"1", "2"}

D19 == DigitChars \ {"0"}

\* %Y  \d\d\d\d
RE_Y == << <<D09, D09, D09, D09>> >>

\* %j  36[0-6]|3[0-5]\d|[1-2]\d\d|0[1-9]\d|00[1-9]|[1-9]\d|0[1-9]|[1-9]
RE_j ==
  << <<{"3"}, {"6"}, D06>>, <<{"3"}, D05, D09>>, <<D12, D09, D09>>,
     <<{"0"}, D19, D09>>, <<{"0"}, {"0"}, D19>>, <<D19, D09>>,
     <<{"0"}, D19>>, <<D19>> >>

\* %H  2[0-3]|[0-1]\d|\d
RE_H == << <<{"2"}, D03>>, <<D01, D09>>, <<D09>> >>

\* %m  1[0-2]|0[1-9]|[1-9]
RE_m == << <<{"1"}, D02>>, <<{"0"}, D19>>, <<D19>> >>

\* %d  3[0-1]|[1-2]\d|0[1-9]|[1-9]| [1-9]
RE_d ==
  << <<{"3"}, D01>>, <<D12, D09>>, <<{"0"}, D19>>, <<D19>>, <<{" "}, D19>> >>

AltMatches(alt, s, p) ==
  /\ p + Len(alt) - 1 <= Len(s)
  /\ \A i \in 1..Len(alt) : s[p + i - 1] \in alt[i]

RECURSIVE RegexMatch(_, _, _)
RECURSIVE TryAlts(_, _, _, _)
\* Match the directives one after the other from position p of s.
RegexMatch(dirs, s, p) ==
  IF dirs = << >> THEN [ok |-> TRUE, groups |-> << >>, end |-> p]
  ELSE TryAlts(dirs, 1, s, p)

\* Try alternative k of the first directive, then the alternatives after it.
TryAlts(dirs, k, s, p) ==
  IF k > Len(Head(dirs)) THEN [ok |-> FALSE, groups |-> << >>, end |-> p]
  ELSE LET alt == Head(dirs)[k]
       IN  IF AltMatches(alt, s, p)
             THEN LET r == RegexMatch(Tail(dirs), s, p + Len(alt))
                  IN  IF r.ok
                        THEN [ok |-> TRUE,
                              groups |-> <<SubSeq(s, p, p + Len(alt) - 1)>> \o r.groups,
                              end |-> r.end]
                        ELSE TryAlts(dirs, k + 1, s, p)
             ELSE TryAlts(dirs, k + 1, s, p)

NoDatetime == Datetime(MinYear, 1, 1)

\* datetime.strptime(s, "%Y%j%H"): [ok, value]; not ok is a ValueError.
\* The date is January 1 of the year plus (day of year - 1) days.
StrptimeYjH(s) ==
  LET r == RegexMatch(<<RE_Y, RE_j, RE_H>>, s, 1)
  IN  IF ~r.ok \/ r.end # Len(s) + 1 THEN [ok |-> FALSE, value |-> NoDatetime]
      ELSE LET year   == PyInt(r.groups[1])
               julian == PyInt(r.groups[2])
               hour   == PyInt(r.groups[3])
           IN  IF year < MinYear \/ ~AddDaysOk(Datetime(MinYear, 1, 1), DaysBeforeYear(year) + julian - 1)
                 THEN [ok |-> FALSE, value |-> NoDatetime]
                 ELSE [ok |-> TRUE,
                       value |-> FromOrdinal((julian - 1) + Ordinal(Datetime(year, 1, 1)),
                                             hour, 0, 0)]

\* datetime.strptime(s, "%Y%m%d"): [ok, value]; not ok is a ValueError.
StrptimeYmd(s) ==
  LET r == RegexMatch(<<RE_Y, RE_m, RE_d>>, s, 1)
  IN  IF ~r.ok \/ r.end # Len(s) + 1 THEN [ok |-> FALSE, value |-> NoDatetime]
      ELSE LET year  == PyInt(r.groups[1])
               month == PyInt(r.groups[2])
               day   == IF Head(r.groups[3]) = " " THEN PyInt(Tail(r.groups[3]))
                        ELSE PyInt(r.groups[3])
           IN  IF year < MinYear \/ day > DaysInMonth(year, month)
                 THEN [ok |-> FALSE, value |-> NoDatetime]
                 ELSE [ok |-> TRUE, value |-> Datetime(year, month, day)]

\* datetime.replace(hour=23, minute=59, second=59)
EndOfDay(dt) == [dt EXCEPT !.hour = 23, !.minute = 59, !.second = 59]

\* ------------------------------------------------------------ input space
TIF == <<".", "t", "i", "f">>

TXT == <<".", "t", "x", "t">>

RECURSIVE JoinUnderscore(_)
JoinUnderscore(tokens) ==
  IF Len(tokens) = 1 THEN Head(tokens)
  ELSE Head(tokens) \o <<"_">> \o JoinUnderscore(Tail(tokens))

\* Geometry of the record at raw position k of the vector file.
PointAt(k) == <<10 + k, 20 + k>>

Coords == {PointAt(k) : k \in 1..MaxPoints}

\* Cell value of raster number n at coordinate xy; some cells hold no data.
CellValue(n, xy) ==
  IF (n + xy[1]) % 3 = 0 \/ n % 4 = 0 THEN NanValue ELSE 100 * n + xy[1]

\* A directory entry: the file name and, for a raster, what rio.open reads.
Entry(n, tokens, suffix, crs) ==
  [name |-> JoinUnderscore(tokens) \o suffix,
   crs  |-> crs,
   band |-> [xy \in Coords |-> CellValue(n, xy)]]

Y2024 == <<"2", "0", "2", "4">>

Prefix(a) == << <<"V">>, <<a>>, <<"b">>, <<"c">> >>

\* The files a raster directory is drawn from.
Catalogue ==
  { Entry(1, Prefix("a") \o <<Y2024, <<"2", "1", "3">>, <<"1", "2">> >>, TIF, ProjectCrs),
    Entry(2, Prefix("x") \o <<Y2024, <<"2", "1", "3">>, <<"1", "2">> >>, TIF, ProjectCrs),
    Entry(3, Prefix("a") \o <<Y2024, <<"2", "1", "4">>, <<"0", "0">> >>, TIF, ProjectCrs),
    Entry(4, Prefix("a") \o <<Y2024, <<"5">>, <<"1", "2">> >>, TIF, ProjectCrs),
    Entry(5, Prefix("a") \o <<Y2024, <<"4", "0">>, <<"3">> >>, TIF, ProjectCrs),
    Entry(6, Prefix("a") \o <<Y2024, <<"2", "1", "3">> >>, TIF, ProjectCrs),
    Entry(7, << <<"V">>, Y2024 >>, TIF, ProjectCrs),
    Entry(8, Prefix("y") \o <<Y2024, <<"2", "1", "3">>, <<"1", "2">> >>, TIF, OtherCrs),
    Entry(9, << <<"n", "o", "t", "e", "s">> >>, TXT, ProjectCrs) }

Directories == {D \in SUBSET Catalogue : Cardinality(D) <= MaxFiles}

\* The record at raw position k: complete or without geometry; the first
\* record of the file may also be the one that lacks its LeuchtenNr.
RawRecords(k) ==
  { [LeuchtenNr |-> 100 + k, geometry |-> PointAt(k)],
    [LeuchtenNr |-> 100 + k, geometry |-> None] } \cup
  (IF k = 1 THEN {[LeuchtenNr |-> NaN, geometry |-> PointAt(k)]} ELSE {})

RawFiles(n) == {f \in [1..n -> UNION {RawRecords(k) : k \in 1..n}] :
                  \A k \in 1..n : f[k] \in RawRecords(k)}

\* A vector file is unreadable, or has a CRS and up to MaxPoints records.
VectorFiles ==
  {[readable |-> FALSE, crs |-> ProjectCrs, records |-> << >>]} \cup
  {[readable |-> TRUE, crs |-> ProjectCrs, records |-> r] :
      r \in UNION {RawFiles(n) : n \in 0..MaxPoints}}

Aug1 == <<"2", "0", "2", "4", "0", "8", "0", "1">>

Jan1 == <<"2", "0", "2", "4", "0", "1", "0", "1">>

\* The calls made: sample(varname, geometry_path, start_date, end_date).
Calls ==
  { [varname |-> "UTCI", start_date |-> Aug1, end_date |-> Aug1],
    [varname |-> "UTCI", start_date |-> Jan1, end_date |-> Aug1],
    [varname |-> "TEMP", start_date |-> Aug1, end_date |-> Aug1] }

\* config.json
Config ==
  [variable |-> [UTCI |-> [dirpath |-> <<"r", "a", "s", "t", "e", "r", "s">>,
                           nan_value |-> NanValue]]]

\* ------------------------------------------------------------ DataFrames
\* gpd.read_file: one row per record, index labels 0..n-1.
ReadFile(vf) ==
  [k \in 1..Len(vf.records) |->
     [label |-> k - 1,
      LeuchtenNr |-> vf.records[k].LeuchtenNr,
      geometry |-> vf.records[k].geometry]]

\* gdf.dropna(subset=["geometry"], inplace=True): the rows kept keep their labels.
DropNaGeometry(df) == SelectSeq(df, LAMBDA row : row.geometry # None)

\* Column assignment final_df[col] = series aligns on the index label:
\* the value at label k of the series, NaN where the series has no label k.
AlignedAt(df, k) ==
  IF \E j \in 1..Len(df) : df[j].label = k
    THEN df[CHOOSE j \in 1..Len(df) : df[j].label = k].LeuchtenNr
    ELSE NaN

RECURSIVE PdConcatReversed(_)
\* The frames concatenated last to first.
PdConcatReversed(df_list) ==
  IF df_list = << >> THEN << >>
  ELSE PdConcatReversed(Tail(df_list)) \o Head(df_list)

RECURSIVE PdConcat(_)
\* pd.concat(df_list, ignore_index=True, axis=0)
PdConcat(df_list) ==
  IF df_list = << >> THEN << >> ELSE Head(df_list) \o PdConcat(Tail(df_list))

\* ---------------------------------------------------------- File Selector
\* raster_file.stem.split("_"); a path is modelled by its file name.
Tokens(path) == Split(PathStem(path), "_")

\* raster_file.suffix == ".tif"
IsTif(path) == PathSuffix(path) = TIF

\* The comparison with the upper bound left out.
InRangeNoEnd(start, dt, end) == DtLeq(start, dt)

\* The comparison of line 82.
InRange(start, dt, end) == DtLeq(start, dt) /\ DtLeq(dt, end)

\* The try block of the filter loop for one file:
\* "keep", "drop", or the exception the except clause catches.
FilterVerdict(path, start, end) ==
  LET t == Tokens(path)
  IN  IF Len(t) < 5 THEN "IndexError"
      ELSE IF ~IntOk(t[5]) THEN "ValueError"
      ELSE IF Len(t) < 6 THEN "IndexError"
      ELSE IF ~IntOk(t[6]) THEN "ValueError"
      ELSE IF PyInt(t[5]) < MinYear \/ PyInt(t[5]) > MaxYear THEN "ValueError"
      ELSE IF ~AddDaysOk(Datetime(PyInt(t[5]), 1, 1), PyInt(t[6])) THEN "OverflowError"
      ELSE LET stamp == AddDays(Datetime(PyInt(t[5]), 1, 1), PyInt(t[6]))
           IN  IF InRange(start, stamp, end) THEN "keep" ELSE "drop"

\* The key of the sort, also the timestamp of the output rows:
\* strptime(tokens[4] + tokens[5] + tokens[6], "%Y%j%H"), or the exception.
StampOf(path) ==
  LET t == Tokens(path)
  IN  IF Len(t) < 7 THEN [exc |-> "IndexError", value |-> NoDatetime]
      ELSE LET r == StrptimeYjH(t[5] \o t[6] \o t[7])
           IN  IF r.ok THEN [exc |-> "none", value |-> r.value]
               ELSE [exc |-> "ValueError", value |-> NoDatetime]

\* a sorts strictly before b.
KeyLess(a, b) == ~DtLeq(StampOf(b).value, StampOf(a).value)

RECURSIVE InsertSorted(_, _)
\* Insert e after every element that does not sort after it.
InsertSorted(sorted, e) ==
  IF sorted = << >> THEN <<e>>
  ELSE IF KeyLess(e, Head(sorted)) THEN <<e>> \o sorted
  ELSE <<Head(sorted)>> \o InsertSorted(Tail(sorted), e)

RECURSIVE Sorted(_)
\* sorted(files, key=...): ascending and stable.
Sorted(files) ==
  IF files = << >> THEN << >>
  ELSE InsertSorted(Sorted(SubSeq(files, 1, Len(files) - 1)), files[Len(files)])

\* The exception of the first key that cannot be computed, "none" otherwise.
SortError(files) ==
  IF \A k \in 1..Len(files) : StampOf(files[k]).exc = "none" THEN "none"
  ELSE StampOf(files[CHOOSE k \in 1..Len(files) :
                       /\ StampOf(files[k]).exc # "none"
                       /\ \A j \in 1..(k - 1) : StampOf(files[j]).exc = "none"]).exc

\* ------------------------------------------------- Single-Raster Sampler
\* The assertion left out.
CrsUnchecked(src_crs, crs) == TRUE

\* The assertion of line 150.
CrsMatches(src_crs, crs) == src_crs = crs

\* final_df["val"].astype(float): every modelled cell value is an integer
\* that float64 represents exactly.
AsFloat(v) == v

\* The rows whose val is missing, instead of those that hold the sentinel.
NoDataRowsIsNull(df, nan_value) == SelectSeq(df, LAMBDA row : row.val = NaN)

\* The rows of final_df whose val equals nan_value (line 157).
NoDataRows(df, nan_value) == SelectSeq(df, LAMBDA row : row.val = nan_value)

\* str(raster_path.stem)
FilenameColumn(raster_path) == PathStem(raster_path)

\* src.sample(coord_list): the cell value at each coordinate, in list order.
SampleCells(src, coord_list) ==
  [k \in 1..Len(coord_list) |-> src.band[coord_list[k]]]

\* The DataFrame _d2r_sampling returns when the assertion holds; src is the
\* opened raster.
D2RSampling(raster_path, src, multipoint_gdf, varname) ==
  LET coord_list == [k \in 1..Len(multipoint_gdf) |-> multipoint_gdf[k].geometry]
      sampled == SampleCells(src, coord_list)
  IN  [k \in 1..Len(multipoint_gdf) |->
         [lantern_id |-> AlignedAt(multipoint_gdf, k - 1),
          datetime   |-> IsoFormatZ(StampOf(raster_path).value),
          varname    |-> varname,
          val        |-> AsFloat(sampled[k]),
          filename   |-> FilenameColumn(raster_path)]]

\* final_df["lantern_id"].isnull().sum()
NullIds(df) == Len(SelectSeq(df, LAMBDA row : row.lantern_id = NaN))

\* ------------------------------------------------------------------ state
VARIABLES
  directory,    \* the entries of the raster directory
  vector_file,  \* the vector file at geometry_path
  call,         \* the arguments of sample
  pc,           \* position in sample
  gdf,          \* the cleaned point set
  crs,          \* gdf.crs
  start_date,   \* parsed start of the period
  end_date,     \* parsed end of the period, at 23:59:59
  raster_files, \* the .tif files in the order iterdir gave them
  i,            \* position of the running for loop
  raster_files_selection,
  df_list,
  handle,       \* the raster rio.open holds open, NoHandle when none
  opened,       \* number of rio.open calls of this invocation
  warnings,     \* the [WARNING] lines printed by this invocation
  result,       \* how this invocation ended
  prev          \* how the previous invocation on the same inputs ended

vars ==
  <<directory, vector_file, call, pc, gdf, crs, start_date, end_date,
    raster_files, i, raster_files_selection, df_list, handle, opened,
    warnings, result, prev>>

inputs == <<directory, vector_file, call>>

NoHandle == << >>

NoResult == [status |-> "none", exc |-> "none", table |-> << >>]

Raised(exc) == [status |-> "raised", exc |-> exc, table |-> << >>]

Returned(table) == [status |-> "returned", exc |-> "none", table |-> table]

Warning(kind, count, file, exc) ==
  [kind |-> kind, count |-> count, file |-> file, exc |-> exc]

\* The state sample starts from.
Fresh ==
  /\ pc = "load"
  /\ gdf = << >>
  /\ crs = ProjectCrs
  /\ start_date = NoDatetime
  /\ end_date = NoDatetime
  /\ raster_files = << >>
  /\ i = 1
  /\ raster_files_selection = << >>
  /\ df_list = << >>
  /\ handle = NoHandle
  /\ opened = 0
  /\ warnings = << >>
  /\ result = NoResult

Init ==
  /\ directory \in Directories
  /\ vector_file \in VectorFiles
  /\ call \in Calls
  /\ prev = NoResult
  /\ Fresh

\* An uncaught exception leaves sample.
Raise(exc) ==
  /\ pc' = "done"
  /\ result' = Raised(exc)

\* Lines 55-69: config, the varname assertion, the vector file, the dates.
Load ==
  /\ pc = "load"
  /\ IF call.varname \notin DOMAIN Config.variable
       THEN Raise("AssertionError") /\ UNCHANGED <<gdf, crs, start_date, end_date>>
     ELSE IF ~vector_file.readable
       THEN Raise("Exception") /\ UNCHANGED <<gdf, crs, start_date, end_date>>
     ELSE IF ~StrptimeYmd(call.start_date).ok \/ ~StrptimeYmd(call.end_date).ok
       THEN /\ Raise("ValueError")
            /\ gdf' = DropNaGeometry(ReadFile(vector_file))
            /\ crs' = vector_file.crs
            /\ UNCHANGED <<start_date, end_date>>
     ELSE /\ gdf' = DropNaGeometry(ReadFile(vector_file))
          /\ crs' = vector_file.crs
          /\ start_date' = StrptimeYmd(call.start_date).value
          /\ end_date' = EndOfDay(StrptimeYmd(call.end_date).value)
          /\ pc' = "listdir"
          /\ UNCHANGED result
  /\ UNCHANGED <<inputs, raster_files, i, raster_files_selection, df_list,
                 handle, opened, warnings, prev>>

\* The orders in which iterdir may enumerate the directory.
Listings(D) ==
  {order \in [1..Cardinality(D) -> D] :
     \A a, b \in 1..Cardinality(D) : a # b => order[a] # order[b]}

\* Lines 73-74: the .tif files of the directory, in iterdir's order.
ListDir ==
  /\ pc = "listdir"
  /\ \E order \in Listings(directory) :
       raster_files' = SelectSeq([k \in 1..Len(order) |-> order[k].name], IsTif)
  /\ i' = 1
  /\ pc' = "filter"
  /\ UNCHANGED <<inputs, gdf, crs, start_date, end_date, raster_files_selection,
                 df_list, handle, opened, warnings, result, prev>>

\* Lines 78-86: one iteration of the filter loop.
FilterStep ==
  /\ pc = "filter"
  /\ i <= Len(raster_files)
  /\ LET raster_file == raster_files[i]
         verdict == FilterVerdict(raster_file, start_date, end_date)
     IN  /\ raster_files_selection' =
              IF verdict = "keep" THEN Append(raster_files_selection, raster_file)
              ELSE raster_files_selection
         /\ warnings' =
              IF verdict \in {"keep", "drop"} THEN warnings
              ELSE Append(warnings, Warning("skipped", 1, raster_file, verdict))
  /\ i' = i + 1
  /\ UNCHANGED <<inputs, pc, gdf, crs, start_date, end_date, raster_files,
                 df_list, handle, opened, result, prev>>

\* Line 88 reads raster_files_selection[0] and [-1].
SummaryOk(selection) == selection # << >>

\* Lines 87-92: the sort, then the summary of the selection.
SortSelection ==
  /\ pc = "filter"
  /\ i > Len(raster_files)
  /\ IF SortError(raster_files_selection) # "none"
       THEN Raise(SortError(raster_files_selection))
            /\ UNCHANGED <<raster_files_selection, i>>
     ELSE IF ~SummaryOk(Sorted(raster_files_selection))
       THEN Raise("IndexError")
            /\ raster_files_selection' = Sorted(raster_files_selection)
            /\ UNCHANGED i
     ELSE /\ raster_files_selection' = Sorted(raster_files_selection)
          /\ i' = 1
          /\ pc' = "sample"
          /\ UNCHANGED result
  /\ df_list' = << >>
  /\ UNCHANGED <<inputs, gdf, crs, start_date, end_date, raster_files,
                 handle, opened, warnings, prev>>

\* rio.open(raster_path): the raster stored under that name.
RioOpen(raster_path) == CHOOSE e \in directory : e.name = raster_path

\* Lines 93-95 and 143-149: the next file is handed to _d2r_sampling, which
\* opens it.
OpenRaster ==
  /\ pc = "sample"
  /\ i <= Len(raster_files_selection)
  /\ handle' = raster_files_selection[i]
  /\ opened' = opened + 1
  /\ pc' = "sampling"
  /\ UNCHANGED <<inputs, gdf, crs, start_date, end_date, raster_files, i,
                 raster_files_selection, df_list, warnings, result, prev>>

\* Lines 150-163 and 96-97: the body of the with block. The handle is
\* released when the block is left, by return or by exception.
SampleRaster ==
  /\ pc = "sampling"
  /\ LET raster_file == raster_files_selection[i]
         src == RioOpen(raster_file)
         df == D2RSampling(raster_file, src, gdf, call.varname)
         nan_values == NoDataRows(df, Config.variable[call.varname].nan_value)
     IN  IF ~CrsMatches(src.crs, crs)
           THEN /\ Raise("AssertionError")
                /\ UNCHANGED <<df_list, warnings, i>>
           ELSE /\ df_list' = Append(df_list, df)
                /\ warnings' =
                     IF Len(nan_values) > 0
                       THEN Append(warnings,
                                   Warning("nodata", Len(nan_values), raster_file, "none"))
                       ELSE warnings
                /\ i' = i + 1
                /\ pc' = "sample"
                /\ UNCHANGED result
  /\ handle' = NoHandle
  /\ UNCHANGED <<inputs, gdf, crs, start_date, end_date, raster_files,
                 raster_files_selection, opened, prev>>

\* Lines 100-109: concatenation, the lantern_id check, the return.
ConcatAndReturn ==
  /\ pc = "sample"
  /\ i > Len(raster_files_selection)
  /\ LET final_df_concat == PdConcat(df_list)
     IN  IF df_list = << >>
           THEN \* pd.concat of an empty list: "No objects to concatenate".
                /\ result' = Raised("ValueError")
                /\ UNCHANGED warnings
           ELSE /\ result' = Returned(final_df_concat)
                /\ warnings' =
                     IF NullIds(final_df_concat) # 0
                       THEN Append(warnings,
                                   Warning("nan_id", NullIds(final_df_concat), << >>, "none"))
                       ELSE warnings
  /\ pc' = "done"
  /\ UNCHANGED <<inputs, gdf, crs, start_date, end_date, raster_files, i,
                 raster_files_selection, df_list, handle, opened, prev>>

\* The caller invokes sample again on the same inputs.
Reinvoke ==
  /\ pc = "done"
  /\ prev' = result
  /\ pc' = "load"
  /\ gdf' = << >>
  /\ crs' = ProjectCrs
  /\ start_date' = NoDatetime
  /\ end_date' = NoDatetime
  /\ raster_files' = << >>
  /\ i' = 1
  /\ raster_files_selection' = << >>
  /\ df_list' = << >>
  /\ handle' = NoHandle
  /\ opened' = 0
  /\ warnings' = << >>
  /\ result' = NoResult
  /\ UNCHANGED inputs

Next ==
  \/ Load
  \/ ListDir
  \/ FilterStep
  \/ SortSelection
  \/ OpenRaster
  \/ SampleRaster
  \/ ConcatAndReturn
  \/ Reinvoke

Spec == Init /\ [][Next]_vars

\* ================================================================== claims
\* Notions of the specification, stated without the operators of the code.
F == Len(raster_files_selection)

P == Len(gdf)

\* The file has year, day-of-year and hour tokens, all decimal.
HasStamp(path) ==
  LET t == Tokens(path)
  IN  Len(t) >= 7 /\ IntOk(t[5]) /\ IntOk(t[6]) /\ IntOk(t[7])
      /\ PyInt(t[5]) >= MinYear /\ PyInt(t[5]) <= MaxYear

\* January 1 of the year + day-of-year days + hour.
SpecStamp(path) ==
  LET t == Tokens(path)
      d == AddDays(Datetime(PyInt(t[5]), 1, 1), PyInt(t[6]))
  IN  [d EXCEPT !.hour = PyInt(t[7])]

\* [start_date 00:00:00, end_date 23:59:59] of the call.
RangeStart == StrptimeYmd(call.start_date).value

RangeEnd == EndOfDay(StrptimeYmd(call.end_date).value)

Within(dt) == DtLeq(RangeStart, dt) /\ DtLeq(dt, RangeEnd)

\* A validly named file: its tokens give a day of the year and an hour.
ValidName(path) ==
  /\ HasStamp(path)
  /\ PyInt(Tokens(path)[6]) \in 1..366
  /\ PyInt(Tokens(path)[7]) \in 0..23

\* The sort and the summary succeeded.
Selected == pc \in {"sample", "sampling"} \/ (pc = "done" /\ result.status = "returned")

\* A timestamp column value "YYYY-MM-DDTHH:MM:SSZ" read back.
ParseIso(str) ==
  [year   |-> DigitsToNat(SubSeq(str, 1, 4)),
   month  |-> DigitsToNat(SubSeq(str, 6, 7)),
   day    |-> DigitsToNat(SubSeq(str, 9, 10)),
   hour   |-> DigitsToNat(SubSeq(str, 12, 13)),
   minute |-> DigitsToNat(SubSeq(str, 15, 16)),
   second |-> DigitsToNat(SubSeq(str, 18, 19))]

\* The raster stored under a name of the directory.
Raster(path) == CHOOSE e \in directory : e.name = path

\* C1 (as claimed): once the selection is made, it holds exactly the files
\* whose timestamp (January 1 + day-of-year days + hour) lies in the
\* requested range, in ascending order of that timestamp, also when the
\* day-of-year or hour tokens are not zero-padded.
C1_SelectionExactAndChronological ==
  Selected =>
    /\ {raster_files_selection[k] : k \in 1..F} =
         {raster_files[k] : k \in {j \in 1..Len(raster_files) :
              HasStamp(raster_files[j]) /\ Within(SpecStamp(raster_files[j]))}}
    /\ \A a, b \in 1..F :
         a < b => DtLeq(SpecStamp(raster_files_selection[a]),
                        SpecStamp(raster_files_selection[b]))

\* C2 (as claimed): row k of the frame of every sampled file carries the
\* identifier of the point at position k of the cleaned point set, the point
\* whose coordinates produced the row's value.
C2_RowCarriesIdentifierOfItsPoint ==
  \A d \in 1..Len(df_list) : \A k \in 1..P :
    /\ df_list[d][k].val = Raster(raster_files_selection[d]).band[gdf[k].geometry]
    /\ df_list[d][k].lantern_id = gdf[k].LeuchtenNr

\* C3 (as claimed): the timestamp written into the rows of a file is the
\* timestamp the File Selector derived for it, and so lies in the range.
C3_RowTimestampIsSelectorTimestamp ==
  \A d \in 1..Len(df_list) : \A k \in 1..Len(df_list[d]) :
    /\ df_list[d][k].datetime = IsoFormatZ(SpecStamp(raster_files_selection[d]))
    /\ Within(ParseIso(df_list[d][k].datetime))

\* The validly named files of the listing that are in range.
ValidInRange ==
  {raster_files[k] : k \in {j \in 1..Len(raster_files) :
       ValidName(raster_files[j]) /\ Within(SpecStamp(raster_files[j]))}}

\* C4 (as claimed): when the listing holds a validly named file in range, a
\* file whose name does not parse never aborts the selection, and sampling
\* starts with exactly the validly named files in range.
C4_UnparseableNamesNeverAbort ==
  ValidInRange # {} =>
    /\ ~(pc = "done" /\ result.status = "raised"
           /\ result.exc \in {"IndexError", "ValueError"})
    /\ (Selected => {raster_files_selection[k] : k \in 1..F} = ValidInRange)

\* C5: a raster whose CRS differs from the vector file's is never sampled:
\* no frame exists for it, the run ends in the assertion error at that file
\* with the handle released, no later file opened and no table returned.
C5_CrsMismatchAbortsRun ==
  /\ \A d \in 1..Len(df_list) : Raster(raster_files_selection[d]).crs = crs
  /\ (pc = "sample" => \A d \in 1..(i - 1) : Raster(raster_files_selection[d]).crs = crs)
  /\ (pc = "done" /\ opened > 0 /\ Raster(raster_files_selection[opened]).crs # crs =>
        /\ result = Raised("AssertionError")
        /\ handle = NoHandle
        /\ Len(df_list) = opened - 1)
  /\ (pc = "done" /\ result.status = "returned" =>
        \A d \in 1..F : Raster(raster_files_selection[d]).crs = crs)

\* C5 witness: an earlier file was sampled, the next one has another CRS,
\* and the run ended without a table.
C5_Witness ==
  /\ pc = "done"
  /\ opened = 2
  /\ Len(df_list) = 1
  /\ Raster(raster_files_selection[2]).crs # crs
  /\ result = Raised("AssertionError")

\* C6: the returned table has F * P rows; row (f-1) * P + k holds the value
\* of the f-th selected file at the coordinates of point k, and names that
\* file.
C6_TableIsFileThenPointOrder ==
  (pc = "done" /\ result.status = "returned") =>
    /\ Len(result.table) = F * P
    /\ \A f \in 1..F : \A k \in 1..P :
         LET row == result.table[(f - 1) * P + k]
         IN  /\ row.val = Raster(raster_files_selection[f]).band[gdf[k].geometry]
             /\ row.filename = PathStem(raster_files_selection[f])
             /\ row.varname = call.varname

\* C6 witness: a table of two files and two points was returned.
C6_Witness ==
  /\ pc = "done"
  /\ result.status = "returned"
  /\ F = 2
  /\ P = 2
  /\ Len(result.table) = 4

\* C7 (as claimed): two invocations on the same inputs return the same
\* table, whatever the order in which the directory was enumerated.
C7_SameInputsSameTable ==
  (pc = "done" /\ result.status = "returned" /\ prev.status = "returned") =>
    result.table = prev.table

\* The selector accepts the file on its year and day-of-year tokens:
\* January 1 + day-of-year days lies in [lo, hi].
YearDayInRange(path, lo, hi) ==
  LET t == Tokens(path)
  IN  /\ Len(t) >= 6 /\ IntOk(t[5]) /\ IntOk(t[6])
      /\ PyInt(t[5]) >= MinYear /\ PyInt(t[5]) <= MaxYear
      /\ LET dt == AddDays(Datetime(PyInt(t[5]), 1, 1), PyInt(t[6]))
         IN  DtLeq(lo, dt) /\ DtLeq(dt, hi)

\* The name has no hour token, or one that is not a number.
NoHour(path) ==
  LET t == Tokens(path)
  IN  Len(t) < 7 \/ \E c \in 1..Len(t[7]) : t[7][c] \notin DigitChars

\* No .tif file of the directory has a timestamp within the range.
NoFileInRange ==
  LET lo == RangeStart
      hi == RangeEnd
  IN  \A e \in directory :
        PathSuffix(e.name) = TIF =>
          (NoHour(e.name) \/ ~YearDayInRange(e.name, lo, hi))

\* No raster was opened, nothing was sampled, and sample, if it has ended,
\* ended with an error and no table.
NothingSampled ==
  /\ opened = 0
  /\ handle = NoHandle
  /\ df_list = << >>
  /\ pc \notin {"sample", "sampling"}
  /\ (pc = "done" => result.status = "raised" /\ result.table = << >>)

\* C8: when no file has a timestamp within the range, no raster is opened,
\* nothing is sampled, and sample ends with an error and no table
\* (NoFileInRange => NothingSampled, the cheaper disjunct first).
C8_EmptySelectionIsAnError == NothingSampled \/ ~NoFileInRange

\* C8 witness: the directory held .tif files, none in range, and the run
\* ended in the error of the summary line.
C8_Witness ==
  /\ NoFileInRange
  /\ raster_files # << >>
  /\ raster_files_selection = << >>
  /\ pc = "done"
  /\ result = Raised("IndexError")

\* Number of points whose cell in the raster holds the sentinel.
SentinelCells(path) ==
  Cardinality({k \in 1..P : Raster(path).band[gdf[k].geometry] = NanValue})

NoDataWarnings(path) ==
  {w \in 1..Len(warnings) : warnings[w].kind = "nodata" /\ warnings[w].file = path}

\* C9: every sampled file has one row per point, each with the raw cell
\* value; a no-data warning for the file exists iff some cell holds the
\* sentinel, and it reports the number of such cells.
C9_NoDataRetainedAndCounted ==
  \A d \in 1..Len(df_list) :
    LET path == raster_files_selection[d]
    IN  /\ Len(df_list[d]) = P
        /\ \A k \in 1..P : df_list[d][k].val = Raster(path).band[gdf[k].geometry]
        /\ (SentinelCells(path) > 0 <=> NoDataWarnings(path) # {})
        /\ \A w \in NoDataWarnings(path) : warnings[w].count = SentinelCells(path)

\* C9 witness: a sampled file with two sentinel cells, both kept, and the
\* warning that counts two.
C9_Witness ==
  \E d \in 1..Len(df_list) :
    /\ SentinelCells(raster_files_selection[d]) = 2
    /\ Len(SelectSeq(df_list[d], LAMBDA row : row.val = NanValue)) = 2
    /\ \E w \in NoDataWarnings(raster_files_selection[d]) : warnings[w].count = 2

\* C10 (as claimed): the rows of one file carry the same variable name, the
\* same timestamp and the same source_filename, which is the name of the
\* file, extension included.
C10_RowsCarryTheFileName ==
  \A d \in 1..Len(df_list) : \A k \in 1..Len(df_list[d]) :
    /\ df_list[d][k].varname = df_list[d][1].varname
    /\ df_list[d][k].datetime = df_list[d][1].datetime
    /\ df_list[d][k].filename = raster_files_selection[d]

====
